---- MODULE Spec2Model ----
(***************************************************************************)
(* Model of the Hex License Python client (src/examples/python.py):        *)
(* LicenseClient.validate with its online and offline paths, the encrypted *)
(* cache file behind validate_offline / save_cache, and the query methods. *)
(*                                                                         *)
(* Time is counted in whole days.  AES-256-CBC and SHA-256 are modelled    *)
(* symbolically: a ciphertext remembers the key, the IV and the padded     *)
(* plaintext it was made from, and decrypting it under another key or IV   *)
(* yields junk bytes.  The JSON text of a record is modelled at token      *)
(* granularity: one character per key and one per value.  Text is a        *)
(* sequence of code points below 2048, bytes are a sequence of 0..255.     *)
(***************************************************************************)
EXTENDS Integers, Sequences, FiniteSets, TLC

VARIABLES license_key, hwid, HAS_CRYPTO, license_info, offline_mode,
          cache_file, now, last, wrote, last_online, probe

vars == <<license_key, hwid, HAS_CRYPTO, license_info, offline_mode,
          cache_file, now, last, wrote, last_online, probe>>

\* ---- bounds ----
\* the last day of the run
MaxTime == 9
\* how many values os.urandom can draw
NumIVs == 1
\* the day on which the licenses the server issues with an expiry run out
ExpiryDay == 7
\* the longest text the encryption helpers are tried on, in characters
MaxPayload == 33

\* ---- program constants ----
OFFLINE_GRACE_DAYS == 7
block_size == 16

\* ---------------------------------------------------------------------
\* Python values
\* ---------------------------------------------------------------------
None == [none |-> TRUE]

NoKey == "<None>"
LicenseKeys == {NoKey, "", "KEY-1"}
HWIDs == {"hwid-A", "hwid-B"}

\* dict.get(k, default)
Get(d, k, default) == IF k \in DOMAIN d THEN d[k] ELSE default

\* a result that is either a value or a raised exception
Ok(v) == [exc |-> FALSE, val |-> v]
Raise == [exc |-> TRUE, val |-> 0]

\* ---- timestamps ----
\* datetime objects: naive (utcnow) or timezone-aware
Naive(t) == [aware |-> FALSE, t |-> t]
utcnow(clock) == Naive(clock)

\* the strings that carry timestamps in JSON: null, an ISO string without
\* offset, an ISO string with a UTC offset ("...+00:00"), or some other text
JNull == [kind |-> "null", t |-> 0]
IsoNaive(t) == [kind |-> "naive", t |-> t]
IsoAware(t) == [kind |-> "aware", t |-> t]
JunkText == [kind |-> "junk", t |-> 0]

isoformat(dt) == [kind |-> IF dt.aware THEN "aware" ELSE "naive", t |-> dt.t]

fromisoformat(s) ==
    IF s.kind = "naive" THEN Ok(Naive(s.t))
    ELSE IF s.kind = "aware" THEN Ok([aware |-> TRUE, t |-> s.t])
    ELSE Raise

timedelta(days) == days

\* datetime + timedelta
dt_add(dt, delta) == [aware |-> dt.aware, t |-> dt.t + delta]

\* (mutant) the comparison the wrong way round
dt_gt_reversed(a, b) == IF a.aware # b.aware THEN Raise ELSE Ok(a.t < b.t)

\* a > b on datetimes: comparing a naive with an aware one raises TypeError
dt_gt(a, b) == IF a.aware # b.aware THEN Raise ELSE Ok(a.t > b.t)

\* truth value of a JSON string-or-null
Truthy(s) == s.kind # "null"

\* ---------------------------------------------------------------------
\* JSON text, one character per token
\* ---------------------------------------------------------------------
KeyOrder == <<"valid", "expiresAt", "features", "owner", "validatedAt",
              "offlineMode", "error">>
FeatureLists == << <<>>, <<"premium">>, <<"premium", "export">> >>
Strings == <<"Acme", "Unknown", "License revoked", "License validation failed">>

IndexOf(seq, x) == CHOOSE i \in 1..Len(seq) : seq[i] = x

KeyCode(k) == IndexOf(KeyOrder, k)

ValCode(k, v) ==
    IF k \in {"valid", "offlineMode"} THEN (IF v THEN 21 ELSE 20)
    ELSE IF k \in {"expiresAt", "validatedAt"} THEN
        (IF v.kind = "null" THEN 22
         ELSE IF v.kind = "naive" THEN 30 + v.t
         ELSE IF v.kind = "aware" THEN 50 + v.t
         ELSE 23)
    ELSE IF k = "features" THEN 70 + IndexOf(FeatureLists, v)
    ELSE 80 + IndexOf(Strings, v)

IsValCode(c) ==
    \/ c \in 20..23
    \/ c \in 30..69
    \/ c \in 71..(70 + Len(FeatureLists))
    \/ c \in 81..(80 + Len(Strings))

DecodeVal(c) ==
    IF c = 20 THEN FALSE
    ELSE IF c = 21 THEN TRUE
    ELSE IF c = 22 THEN JNull
    ELSE IF c = 23 THEN JunkText
    ELSE IF c \in 30..49 THEN IsoNaive(c - 30)
    ELSE IF c \in 50..69 THEN IsoAware(c - 50)
    ELSE IF c \in 71..79 THEN FeatureLists[c - 70]
    ELSE Strings[c - 80]

RECURSIVE DumpKeys(_, _)
DumpKeys(d, i) ==
    IF i > Len(KeyOrder) THEN <<>>
    ELSE LET k == KeyOrder[i] IN
         (IF k \in DOMAIN d THEN <<KeyCode(k), ValCode(k, d[k])>> ELSE <<>>)
         \o DumpKeys(d, i + 1)

\* json.dumps(d): the keys in insertion order, each with its value
json_dumps(d) == DumpKeys(d, 1)

\* the last value a key is given in the text (a repeated key overrides)
LastPos(b, k) ==
    CHOOSE i \in 1..(Len(b) \div 2) :
        /\ b[2 * i - 1] = KeyCode(k)
        /\ \A j \in (i + 1)..(Len(b) \div 2) : b[2 * j - 1] # KeyCode(k)

\* str.encode(): one byte for a code point below 128, two bytes for the
\* others
RECURSIVE EncodeFrom(_, _)
EncodeFrom(text, i) ==
    IF i > Len(text) THEN <<>>
    ELSE (IF text[i] < 128 THEN <<text[i]>>
          ELSE <<192 + (text[i] \div 64), 128 + (text[i] % 64)>>)
         \o EncodeFrom(text, i + 1)

utf8_encode(text) == EncodeFrom(text, 1)

\* bytes.decode('utf-8'): a byte that starts no valid sequence, or a
\* sequence cut short, raises UnicodeDecodeError
RECURSIVE DecodeFrom(_, _)
DecodeFrom(b, i) ==
    IF i > Len(b) THEN Ok(<<>>)
    ELSE IF b[i] < 128 THEN
        LET rest == DecodeFrom(b, i + 1)
        IN IF rest.exc THEN Raise ELSE Ok(<<b[i]>> \o rest.val)
    ELSE IF b[i] \in 194..223 /\ i < Len(b) /\ b[i + 1] \in 128..191 THEN
        LET rest == DecodeFrom(b, i + 2)
        IN IF rest.exc THEN Raise
           ELSE Ok(<<(b[i] - 192) * 64 + (b[i + 1] - 128)>> \o rest.val)
    ELSE Raise

utf8_decode(b) == DecodeFrom(b, 1)

\* json.loads: JSONDecodeError on the empty text and on anything that is not
\* a sequence of key/value tokens
json_loads(b) ==
    IF Len(b) = 0 \/ Len(b) % 2 # 0 THEN Raise
    ELSE IF \E i \in 1..(Len(b) \div 2) :
                \/ b[2 * i - 1] \notin 1..Len(KeyOrder)
                \/ ~IsValCode(b[2 * i])
         THEN Raise
    ELSE LET keys == {KeyOrder[b[2 * i - 1]] : i \in 1..(Len(b) \div 2)}
         IN Ok([k \in keys |-> DecodeVal(b[2 * LastPos(b, k)])])

\* ---------------------------------------------------------------------
\* hex text, SHA-256, AES-256-CBC, PKCS7
\* ---------------------------------------------------------------------
\* a piece of text is the hex rendering of some bytes, or is not hex at all
hex(b) == [hex |-> TRUE, raw |-> b]
fromhex(text) == IF text.hex THEN Ok(text.raw) ELSE Raise

\* os.urandom(16): sixteen bytes, told apart by the draw n
IVs == 1..NumIVs
urandom16(n) == [i \in 1..block_size |-> n]

sha256(x) == [sha256 |-> x]

\* Cipher(AES(key), CBC(iv)).encryptor(): update + finalize
AES_CBC_encrypt(padded, key, iv) == [key |-> key, iv |-> iv, pt |-> padded]

\* What decrypting a block under the wrong key or IV leaves: bytes that are
\* no UTF-8.  The last of them, the one _unpad_data reads, is fixed by the
\* ciphertext: 0 for some ciphertexts, 1 for the others.
GarbageTail(ct) == IF Len(ct.iv) = 0 THEN 0 ELSE ct.iv[1] % 2
Garbage(n, tail) == [i \in 1..n |-> IF i = n THEN tail ELSE 255]

\* Cipher(AES(key), CBC(iv)).decryptor(): update + finalize.  A wrong IV
\* size and a ciphertext that is no whole number of blocks raise ValueError;
\* a wrong key garbles everything, a wrong IV the first block.
AES_CBC_decrypt(ct, key, iv) ==
    IF Len(iv) # block_size THEN Raise
    ELSE IF Len(ct.pt) % block_size # 0 THEN Raise
    ELSE IF ct.key # key THEN Ok(Garbage(Len(ct.pt), GarbageTail(ct)))
    ELSE IF ct.iv # iv /\ Len(ct.pt) > 0 THEN
        Ok(Garbage(block_size, GarbageTail(ct))
           \o SubSeq(ct.pt, block_size + 1, Len(ct.pt)))
    ELSE Ok(ct.pt)

\* (mutant) nothing is added to data that already fills its blocks
_pad_data_to_boundary(data) ==
    LET padding_size == (block_size - (Len(data) % block_size)) % block_size
    IN data \o [i \in 1..padding_size |-> padding_size]

\* lines 337-342
_pad_data(data) ==
    LET padding_size == block_size - (Len(data) % block_size)
    IN data \o [i \in 1..padding_size |-> padding_size]

\* data[-1] raises IndexError on empty data; data[:-n] is empty for n = 0
\* and for n >= len(data)
_unpad_data(data) ==
    IF Len(data) = 0 THEN Raise
    ELSE LET padding_size == data[Len(data)]
         IN IF padding_size = 0 \/ padding_size >= Len(data) THEN Ok(<<>>)
            ELSE Ok(SubSeq(data, 1, Len(data) - padding_size))

\* (mutant) one key for every machine
_get_encryption_key_shared(hw) == sha256("")

\* lines 309-311
_get_encryption_key(hw) == sha256(hw)

\* lines 313-322
_encrypt_aes(data, key, iv) ==
    LET padded_data == _pad_data(utf8_encode(data))
    IN AES_CBC_encrypt(padded_data, key, iv)

_decrypt_aes(data, key, iv) ==
    LET decrypted_data == AES_CBC_decrypt(data, key, iv)
    IN IF decrypted_data.exc THEN Raise
       ELSE LET unpadded_data == _unpad_data(decrypted_data.val)
            IN IF unpadded_data.exc THEN Raise
               ELSE utf8_decode(unpadded_data.val)

\* ---------------------------------------------------------------------
\* the cache file: absent, or its text as the pieces between the colons
\* ---------------------------------------------------------------------
NoFile == [exists |-> FALSE, fields |-> <<>>]
FileOf(fields) == [exists |-> TRUE, fields |-> fields]

\* open(cache_file, 'w') followed by a write that fails leaves an empty file
EmptyFile == FileOf(<< hex(<<>>) >>)

\* ---------------------------------------------------------------------
\* validate_offline
\* ---------------------------------------------------------------------
\* what a run of a method body hands back: whether an exception came out of
\* it, the value returned, the fields of self afterwards and the branch taken
Outcome(raised, ret, info, off, why) ==
    [raised |-> raised, ret |-> ret, info |-> info, off |-> off, why |-> why]

\* lines 218-267, the body of the try
validate_offline_try(file, hw, crypto, clock, info, off) ==
    LET Fail(why) == Outcome(FALSE, FALSE, info, off, why)
        Throw == Outcome(TRUE, FALSE, info, off, "Exception")
    IN
    IF ~file.exists THEN Fail("NoCache")
    ELSE IF Len(file.fields) # 2 THEN Throw
    ELSE LET iv == fromhex(file.fields[1])
             encrypted_data == fromhex(file.fields[2])
    IN
    IF iv.exc \/ encrypted_data.exc THEN Throw
    ELSE IF ~crypto THEN Fail("NoCrypto")
    ELSE LET key == _get_encryption_key(hw)
             decrypted == _decrypt_aes(encrypted_data.val, key, iv.val)
    IN
    IF decrypted.exc THEN Throw
    ELSE LET loaded == json_loads(decrypted.val)
    IN
    IF loaded.exc THEN Throw
    ELSE LET cache == loaded.val
    IN
    IF "validatedAt" \notin DOMAIN cache \/ "expiresAt" \notin DOMAIN cache
    THEN Fail("MissingKeys")
    ELSE LET validated_at == fromisoformat(cache.validatedAt)
    IN
    IF validated_at.exc THEN Throw
    ELSE LET offline_limit == timedelta(OFFLINE_GRACE_DAYS)
             offline_expires == dt_add(validated_at.val, offline_limit)
             grace_over == dt_gt(utcnow(clock), offline_expires)
    IN
    IF grace_over.exc THEN Throw
    ELSE IF grace_over.val THEN Fail("GraceExpired")
    ELSE LET expires_at ==
                 IF Truthy(cache.expiresAt) THEN fromisoformat(cache.expiresAt)
                 ELSE Ok(Naive(0))
             expired ==
                 IF Truthy(cache.expiresAt) /\ ~expires_at.exc
                 THEN dt_gt(utcnow(clock), expires_at.val)
                 ELSE Ok(FALSE)
    IN
    IF expires_at.exc \/ expired.exc THEN Throw
    ELSE IF expired.val THEN Fail("LicenseExpired")
    ELSE Outcome(FALSE, TRUE,
                 [k \in DOMAIN cache \cup {"offlineMode"} |->
                     IF k = "offlineMode" THEN TRUE ELSE cache[k]],
                 TRUE, "Accepted")

\* (mutant) no except clause: an exception leaves validate_offline
validate_offline_uncaught(file, hw, crypto, clock, info, off) ==
    validate_offline_try(file, hw, crypto, clock, info, off)

\* (mutant) the except clause returns True
validate_offline_lenient(file, hw, crypto, clock, info, off) ==
    LET body == validate_offline_try(file, hw, crypto, clock, info, off)
    IN IF body.raised THEN Outcome(FALSE, TRUE, info, off, "Exception")
       ELSE body

\* (mutant) the HAS_CRYPTO check of lines 232-234 is missing
validate_offline_ungated(file, hw, crypto, clock, info, off) ==
    LET body == validate_offline_try(file, hw, TRUE, clock, info, off)
    IN IF body.raised THEN Outcome(FALSE, FALSE, info, off, "Exception")
       ELSE body

\* (mutant) an accepted record is not marked as an offline one
validate_offline_unmarked(file, hw, crypto, clock, info, off) ==
    LET body == validate_offline_try(file, hw, crypto, clock, info, off)
    IN IF body.raised THEN Outcome(FALSE, FALSE, info, off, "Exception")
       ELSE IF body.ret
            THEN [body EXCEPT !.info = [body.info EXCEPT !.offlineMode = FALSE]]
       ELSE body

\* (mutant) the except clause forgets the held record
validate_offline_resetting(file, hw, crypto, clock, info, off) ==
    LET body == validate_offline_try(file, hw, crypto, clock, info, off)
    IN IF body.raised THEN Outcome(FALSE, FALSE, None, FALSE, "Exception")
       ELSE body

\* lines 216-271: the except clause turns every exception into False
validate_offline(file, hw, crypto, clock, info, off) ==
    LET body == validate_offline_try(file, hw, crypto, clock, info, off)
    IN IF body.raised THEN Outcome(FALSE, FALSE, info, off, "Exception")
       ELSE body

\* ---------------------------------------------------------------------
\* save_cache
\* ---------------------------------------------------------------------
IsNone(x) == "none" \in DOMAIN x

\* how writing the file can end: "ok", or an OSError from open() (the file is
\* left as it was), from the write itself (the file was truncated by open()),
\* or from os.chmod (the text is in the file)
WriteOutcomes == {"ok", "open_fails", "write_fails", "chmod_fails"}

Saved(raised, ret, file, wr) ==
    [raised |-> raised, ret |-> ret, file |-> file, wrote |-> wr]

\* (mutant) the record's valid flag is not looked at
save_cache_try_unguarded(info, crypto, hw, n, wr, file) ==
    IF IsNone(info) \/ ~crypto THEN Saved(FALSE, FALSE, file, "none")
    ELSE LET iv == urandom16(n)
             encrypted_combined ==
                 FileOf(<<hex(iv),
                          hex(_encrypt_aes(json_dumps(info), _get_encryption_key(hw), iv))>>)
         IN IF wr = "open_fails" THEN Saved(TRUE, FALSE, file, "none")
            ELSE IF wr = "write_fails" THEN Saved(TRUE, FALSE, EmptyFile, "truncated")
            ELSE IF wr = "chmod_fails" THEN Saved(TRUE, FALSE, encrypted_combined, "saved")
            ELSE Saved(FALSE, TRUE, encrypted_combined, "saved")

\* lines 276-303, the body of the try; n is the draw of os.urandom
save_cache_try(info, crypto, hw, n, wr, file) ==
    IF IsNone(info) \/ ~Get(info, "valid", FALSE) THEN Saved(FALSE, FALSE, file, "none")
    ELSE IF ~crypto THEN Saved(FALSE, FALSE, file, "none")
    ELSE LET key == _get_encryption_key(hw)
             iv == urandom16(n)
             json_data == json_dumps(info)
             encrypted_data == _encrypt_aes(json_data, key, iv)
             encrypted_combined == FileOf(<<hex(iv), hex(encrypted_data)>>)
         IN IF wr = "open_fails" THEN Saved(TRUE, FALSE, file, "none")
            ELSE IF wr = "write_fails" THEN Saved(TRUE, FALSE, EmptyFile, "truncated")
            ELSE IF wr = "chmod_fails" THEN Saved(TRUE, FALSE, encrypted_combined, "saved")
            ELSE Saved(FALSE, TRUE, encrypted_combined, "saved")

\* (mutant) a cache file that is there is kept
save_cache_keeping(info, crypto, hw, n, wr, file) ==
    LET body == save_cache_try(info, crypto, hw, n, wr, file)
    IN IF file.exists THEN Saved(FALSE, TRUE, file, "none")
       ELSE IF body.raised THEN Saved(FALSE, FALSE, body.file, body.wrote)
       ELSE body

\* lines 273-307: the except clause turns every exception into False
save_cache(info, crypto, hw, n, wr, file) ==
    LET body == save_cache_try(info, crypto, hw, n, wr, file)
    IN IF body.raised THEN Saved(FALSE, FALSE, body.file, body.wrote) ELSE body

\* ---------------------------------------------------------------------
\* validate
\* ---------------------------------------------------------------------
\* how the POST to <api_url>/verify can end.  urlopen raises on a DNS
\* failure, a refused connection, a timeout and a non-2xx status (HTTPError);
\* json.loads raises on a body that is no JSON; otherwise the body is a dict.
\* A non-2xx answer has a body too, here the server's JSON rejection.
NetOutcomes == <<
    [kind |-> "dns", body |-> None],
    [kind |-> "refused", body |-> None],
    [kind |-> "timeout", body |-> None],
    [kind |-> "non2xx", body |-> [valid |-> FALSE, error |-> "License revoked"]],
    [kind |-> "bad_json", body |-> None],
    [kind |-> "ok", body |-> [valid |-> TRUE, expiresAt |-> JNull,
                              features |-> <<"premium">>, owner |-> "Acme"]],
    [kind |-> "ok", body |-> [valid |-> TRUE, expiresAt |-> IsoNaive(ExpiryDay),
                              features |-> <<"premium", "export">>, owner |-> "Acme"]],
    [kind |-> "ok", body |-> [valid |-> TRUE, expiresAt |-> IsoAware(ExpiryDay)]],
    [kind |-> "ok", body |-> [valid |-> FALSE, error |-> "License revoked"]],
    [kind |-> "ok", body |-> [valid |-> FALSE]] >>

TransportFailures == {"dns", "refused", "timeout", "non2xx", "bad_json"}

\* what one call of validate() did
Call(raised, ret, info, off, file, net, offl, why, saves, wr) ==
    [raised |-> raised, ret |-> ret, info |-> info, off |-> off, file |-> file,
     net |-> net, offl |-> offl, why |-> why, saves |-> saves, wrote |-> wr]

\* (mutant) a non-2xx status does not raise: its body is read as the answer
request_raises_not_on_status(net) == net.kind \notin {"ok", "non2xx"}

\* lines 167-168: urlopen(...) and json.loads(response.read()) raise
request_raises(net) == net.kind # "ok"

\* (mutant) the record is marked as an offline one
valid_info_offline(response_data, clock) ==
    [valid |-> TRUE,
     expiresAt |-> Get(response_data, "expiresAt", JNull),
     features |-> Get(response_data, "features", <<>>),
     owner |-> Get(response_data, "owner", "Unknown"),
     validatedAt |-> isoformat(utcnow(clock)),
     offlineMode |-> TRUE]

\* lines 172-179: the record built from a valid=true answer
valid_info(response_data, clock) ==
    [valid |-> TRUE,
     expiresAt |-> Get(response_data, "expiresAt", JNull),
     features |-> Get(response_data, "features", <<>>),
     owner |-> Get(response_data, "owner", "Unknown"),
     validatedAt |-> isoformat(utcnow(clock)),
     offlineMode |-> FALSE]

\* (mutant) the server's error text is dropped
invalid_info_generic(response_data) ==
    [valid |-> FALSE, error |-> "License validation failed"]

\* lines 190-193: the record built from any other answer
invalid_info(response_data) ==
    [valid |-> FALSE,
     error |-> Get(response_data, "error", "License validation failed")]

\* lines 137-196, the body of the try
validate_try(hw, crypto, clock, info, off, file, net, n, wr) ==
    IF request_raises(net) THEN
        Call(TRUE, FALSE, info, off, file, net.kind, 0, "none", 0, "none")
    ELSE LET response_data == net.body IN
    IF Get(response_data, "valid", FALSE) THEN
        LET fresh == valid_info(response_data, clock)
            saved == save_cache(fresh, crypto, hw, n, wr, file)
        IN Call(saved.raised, TRUE, fresh, FALSE, saved.file, net.kind, 0, "none",
                1, saved.wrote)
    ELSE
        Call(FALSE, FALSE, invalid_info(response_data), off, file, net.kind,
             0, "none", 0, "none")

\* (mutant) only None counts as no key, the empty string passes
no_license_key_none_only(key) == key = NoKey

\* line 132: not self.license_key
no_license_key(key) == key = NoKey \/ key = ""

\* (mutant) an accepted offline validation writes the cache anew, stamped
\* with the current time
validate_refreshing(key, hw, crypto, clock, info, off, file, net, n, wr) ==
    IF no_license_key(key) THEN
        Call(FALSE, FALSE, info, off, file, "none", 0, "none", 0, "none")
    ELSE LET online == validate_try(hw, crypto, clock, info, off, file, net, n, wr)
    IN
    IF ~online.raised THEN online
    ELSE LET offline == validate_offline(online.file, hw, crypto, clock,
                                         online.info, online.off)
             refreshed ==
                 IF offline.ret
                 THEN FileOf(<<hex(urandom16(n)),
                               hex(_encrypt_aes(
                                   json_dumps([offline.info EXCEPT
                                       !.validatedAt = isoformat(utcnow(clock))]),
                                   _get_encryption_key(hw), urandom16(n)))>>)
                 ELSE online.file
         IN Call(offline.raised, offline.ret, offline.info, offline.off,
                 refreshed, net.kind, 1, offline.why, online.saves, online.wrote)

\* lines 128-206
validate(key, hw, crypto, clock, info, off, file, net, n, wr) ==
    IF no_license_key(key) THEN
        Call(FALSE, FALSE, info, off, file, "none", 0, "none", 0, "none")
    ELSE LET online == validate_try(hw, crypto, clock, info, off, file, net, n, wr)
    IN
    IF ~online.raised THEN online
    ELSE LET offline == validate_offline(online.file, hw, crypto, clock,
                                         online.info, online.off)
         IN Call(offline.raised, offline.ret, offline.info, offline.off,
                 online.file, net.kind, 1, offline.why, online.saves, online.wrote)

\* ---------------------------------------------------------------------
\* queries
\* ---------------------------------------------------------------------
is_valid(info) == ~IsNone(info) /\ Get(info, "valid", FALSE)

is_offline_mode(info) == ~IsNone(info) /\ Get(info, "offlineMode", FALSE)

\* (mutant) the features are looked up whether or not the record is valid
has_feature_unguarded(info, feature_name) ==
    IF IsNone(info) THEN FALSE
    ELSE LET features == Get(info, "features", <<>>)
         IN \E i \in 1..Len(features) : features[i] = feature_name

has_feature(info, feature_name) ==
    IF ~is_valid(info) THEN FALSE
    ELSE LET features == Get(info, "features", <<>>)
         IN \E i \in 1..Len(features) : features[i] = feature_name

FeatureNames == {"premium", "sso"}

\* ---------------------------------------------------------------------
\* the state machine
\* ---------------------------------------------------------------------
\* the text save_cache would write for a record
CacheText(rec, hw, n) ==
    FileOf(<<hex(urandom16(n)),
             hex(_encrypt_aes(json_dumps(rec), _get_encryption_key(hw), urandom16(n)))>>)

\* the record an earlier run of this program validated online on day 0
PriorRecord ==
    [valid |-> TRUE, expiresAt |-> JNull, features |-> <<"premium">>,
     owner |-> "Acme", validatedAt |-> IsoNaive(0), offlineMode |-> FALSE]

OtherHwid(hw) == CHOOSE o \in HWIDs : o # hw

\* the cache files a new client can find: none, text without a colon, text
\* that is no hex, a cache made on another machine
\* (twice, for the two ways its decryption ends), a ciphertext cut short,
\* records of this machine without validatedAt or marked invalid, and the
\* cache of an earlier run
InitialFiles(hw) == <<
    NoFile,
    FileOf(<< hex(urandom16(1)) >>),
    FileOf(<< [hex |-> FALSE, raw |-> <<>>], CacheText(PriorRecord, hw, 1).fields[2] >>),
    CacheText(PriorRecord, OtherHwid(hw), 1),
    CacheText(PriorRecord, OtherHwid(hw), 2),
    FileOf(<< hex(urandom16(1)),
              hex([key |-> _get_encryption_key(hw), iv |-> urandom16(1),
                   pt |-> SubSeq(_pad_data(utf8_encode(json_dumps(PriorRecord))),
                                1, block_size - 1)]) >>),
    CacheText([valid |-> TRUE, expiresAt |-> JNull], hw, 1),
    CacheText([PriorRecord EXCEPT !.valid = FALSE], hw, 1),
    CacheText(PriorRecord, hw, 1) >>

\* what the last step did: the call, its argument and result, whether an
\* exception came out of it, the answer to its request (an index of
\* NetOutcomes, 0 without a request), how often it ran validate_offline and
\* save_cache, the branch validate_offline took and how the write ended
NoCall == [op |-> "init", arg |-> "", ret |-> FALSE, raised |-> FALSE,
           resp |-> 0, offl |-> 0, why |-> "none", saves |-> 0, wr |-> "none"]

\* the most recent validate() that got valid=true: the day, the answer (an
\* index of NetOutcomes) and how the write of the cache ended
NoOnline == [at |-> -1, resp |-> 0, wr |-> "none"]

\* the encryption helpers called on their own: the helper called last, the
\* text it all started from, the draw of the IV and what the helper returned
NoProbe == [op |-> "none", payload |-> <<>>, n |-> 1, out |-> <<>>]

Init ==
    /\ license_key \in LicenseKeys
    /\ hwid \in HWIDs
    /\ HAS_CRYPTO \in BOOLEAN
    /\ license_info = None
    /\ offline_mode = FALSE
    /\ \E files \in {InitialFiles(hwid)} :
          \E i \in 1..Len(files) : cache_file = files[i]
    /\ now = 0
    /\ last = NoCall
    /\ wrote = "env"
    /\ last_online = IF cache_file = CacheText(PriorRecord, hwid, 1)
                     THEN [at |-> 0, resp |-> 6, wr |-> "ok"]
                     ELSE NoOnline
    /\ probe = NoProbe

\* one call of validate(): NetOutcomes[i] is how the request ends, n the draw
\* of os.urandom, wr how the write of the cache file ends
ValidateWith(i, n, wr) ==
    \E c \in {validate(license_key, hwid, HAS_CRYPTO, now, license_info,
                         offline_mode, cache_file, NetOutcomes[i], n, wr)} :
       /\ license_info' = c.info
       /\ offline_mode' = c.off
       /\ cache_file' = c.file
       /\ wrote' = IF c.wrote = "none" THEN wrote ELSE c.wrote
       /\ last_online' = IF c.saves = 1
                         THEN [at |-> now, resp |-> i,
                               wr |-> IF HAS_CRYPTO THEN wr ELSE "none"]
                         ELSE last_online
       /\ last' = [op |-> "validate", arg |-> "", ret |-> c.ret,
                   raised |-> c.raised,
                   resp |-> IF c.net = "none" THEN 0 ELSE i,
                   offl |-> c.offl, why |-> c.why, saves |-> c.saves,
                   wr |-> IF c.saves = 0 \/ ~HAS_CRYPTO THEN "none" ELSE wr]
       /\ UNCHANGED <<license_key, hwid, HAS_CRYPTO, now, probe>>

\* the draw and the write matter only when the server says valid
Validate ==
    \E i \in 1..Len(NetOutcomes) :
        IF NetOutcomes[i].kind = "ok" /\ Get(NetOutcomes[i].body, "valid", FALSE)
        THEN \E n \in IVs, wr \in WriteOutcomes : ValidateWith(i, n, wr)
        ELSE ValidateWith(i, 1, "ok")

Query(op, arg, ret) ==
    /\ last' = [NoCall EXCEPT !.op = op, !.arg = arg, !.ret = ret]
    /\ UNCHANGED <<license_key, hwid, HAS_CRYPTO, license_info, offline_mode,
                   cache_file, now, wrote, last_online, probe>>

IsValid == Query("is_valid", "", is_valid(license_info))

IsOfflineMode == Query("is_offline_mode", "", is_offline_mode(license_info))

HasFeature == \E f \in FeatureNames : Query("has_feature", f, has_feature(license_info, f))

\* the days on which the client is used: the first two, and those from the
\* end of the grace period of the first on
UseDays == {d \in 0..MaxTime : d <= 1 \/ d >= OFFLINE_GRACE_DAYS}

\* time passes until the next day of use
Tick ==
    /\ \E d \in UseDays : d > now
    /\ now' = CHOOSE d \in UseDays : d > now /\ \A e \in UseDays : e > now => d <= e
    /\ last' = [NoCall EXCEPT !.op = "tick"]
    /\ UNCHANGED <<license_key, hwid, HAS_CRYPTO, license_info, offline_mode,
                   cache_file, wrote, last_online, probe>>

Next == Validate \/ IsValid \/ IsOfflineMode \/ HasFeature \/ Tick

Spec == Init /\ [][Next]_vars

\* ---------------------------------------------------------------------
\* the encryption helpers on their own
\* ---------------------------------------------------------------------
\* the characters the texts are made of: NUL, 0x01 and 0x10 (which look like
\* padding), a letter, and one that takes two bytes
Chars == {0, 1, 16, 97, 233}

\* the texts: every length up to MaxPayload of one character, all of these
\* followed by a different one, and the JSON text of a record
Payloads ==
    {[i \in 1..len |-> c] : len \in 0..MaxPayload, c \in Chars}
    \cup {[i \in 1..len |-> IF i = len THEN 1 ELSE 233] : len \in 1..MaxPayload}
    \cup {json_dumps(PriorRecord)}

CryptoInit ==
    /\ license_key = NoKey
    /\ hwid \in HWIDs
    /\ HAS_CRYPTO = TRUE
    /\ license_info = None
    /\ offline_mode = FALSE
    /\ cache_file = NoFile
    /\ now = 0
    /\ last = NoCall
    /\ wrote = "env"
    /\ last_online = NoOnline
    /\ \E text \in Payloads, n \in IVs :
          probe = [op |-> "input", payload |-> text, n |-> n, out |-> text]

Helper(from, op, out) ==
    /\ probe.op = from
    /\ probe' = [probe EXCEPT !.op = op, !.out = out]
    /\ UNCHANGED <<license_key, hwid, HAS_CRYPTO, license_info, offline_mode,
                   cache_file, now, last, wrote, last_online>>

PadData == Helper("input", "_pad_data", _pad_data(utf8_encode(probe.out)))

UnpadData == Helper("_pad_data", "_unpad_data", _unpad_data(probe.out))

EncryptAes ==
    Helper("input", "_encrypt_aes",
           _encrypt_aes(probe.out, _get_encryption_key(hwid), urandom16(probe.n)))

DecryptAes ==
    Helper("_encrypt_aes", "_decrypt_aes",
           _decrypt_aes(probe.out, _get_encryption_key(hwid), urandom16(probe.n)))

CryptoNext == PadData \/ UnpadData \/ EncryptAes \/ DecryptAes

CryptoSpec == CryptoInit /\ [][CryptoNext]_vars

\* ---------------------------------------------------------------------
\* generate_hwid, as __init__ calls it
\* ---------------------------------------------------------------------
\* the MAC addresses a machine can have
MacLists == { <<>>, <<"02:00:00:00:00:01">>,
              <<"02:00:00:00:00:01", "02:00:00:00:00:02">> }

\* how subprocess.check_output of the MAC listing command can end: with its
\* output, with CalledProcessError (the command is missing or exits with a
\* status other than 0), or with output that .decode('utf-8') refuses
CommandOutcomes == {"ok", "exit_status", "not_utf8"}

\* what generate_hwid reads: the platform module, socket.gethostname and
\* os.cpu_count, whether psutil and netifaces could be imported, and the
\* MAC addresses with the way the listing command ends
Machines ==
    [hostname : {"host-1", "host-2"},
     system : {"Linux", "Windows", "Darwin"},
     processor : {"", "x86_64"},
     HAS_NETINFO : BOOLEAN,
     macs : MacLists,
     command : CommandOutcomes]

\* filter(None, system_info): the empty strings are dropped
RECURSIVE NonEmpty(_)
NonEmpty(fields) ==
    IF Len(fields) = 0 THEN <<>>
    ELSE (IF Head(fields) = "" THEN <<>> ELSE <<Head(fields)>>)
         \o NonEmpty(Tail(fields))

\* ','.join(mac_addresses), kept as the list it joins
JoinComma(macs) == [joined |-> macs]

\* lines 68-126; '|'.join is kept as the list of the fields it joins.
\* platform.release and os.cpu_count are the same on every machine here.
generate_hwid(m) ==
    LET system_info == <<m.hostname, m.system, "6.1", m.processor, "8">>
        mem == IF m.HAS_NETINFO THEN <<"8589934592">> ELSE <<>>
        Hash(mac_addresses) ==
            LET with_macs == IF Len(mac_addresses) > 0
                             THEN <<JoinComma(mac_addresses)>> ELSE <<>>
            IN Ok(sha256([fields |-> NonEmpty(system_info), macs |-> with_macs,
                          mem |-> mem]))
    IN IF m.HAS_NETINFO THEN Hash(m.macs)
       ELSE IF m.command # "ok" THEN Raise
       ELSE Hash(m.macs)

\* lines 61-62: __init__ calls generate_hwid outside any try
HwidInit ==
    /\ license_key = NoKey
    /\ hwid = ""
    /\ HAS_CRYPTO = TRUE
    /\ license_info = None
    /\ offline_mode = FALSE
    /\ cache_file = NoFile
    /\ now = 0
    /\ last = NoCall
    /\ wrote = "env"
    /\ last_online = NoOnline
    /\ \E m \in Machines :
          probe = [op |-> "input", payload |-> m, n |-> 1, out |-> Raise]

GenerateHwid == Helper("input", "generate_hwid", generate_hwid(probe.payload))

HwidSpec == HwidInit /\ [][GenerateHwid]_vars

\* ---------------------------------------------------------------------
\* properties
\* ---------------------------------------------------------------------
\* the cache file holds a record the machine hw can read
Readable(file, hw) ==
    /\ file.exists
    /\ Len(file.fields) = 2
    /\ file.fields[1].hex
    /\ file.fields[2].hex
    /\ LET text == _decrypt_aes(file.fields[2].raw, _get_encryption_key(hw),
                                file.fields[1].raw)
       IN ~text.exc /\ ~json_loads(text.val).exc

\* that record
CachedRecord(file, hw) ==
    json_loads(_decrypt_aes(file.fields[2].raw, _get_encryption_key(hw),
                            file.fields[1].raw).val).val

IsTimestamp(s) == s.kind \in {"naive", "aware"}

\* the cache holds a record with both keys validate_offline asks for
Checkable(file, hw) ==
    /\ Readable(file, hw)
    /\ "validatedAt" \in DOMAIN CachedRecord(file, hw)
    /\ "expiresAt" \in DOMAIN CachedRecord(file, hw)

OfflineTried == last.op = "validate" /\ last.offl = 1
OfflineAccepted == OfflineTried /\ last.ret
OfflineRejected == OfflineTried /\ ~last.ret

\* the answer the last validate() got to its request
LastAnswer == NetOutcomes[last.resp]
ServerSaidValid ==
    /\ last.op = "validate" /\ last.resp > 0
    /\ LastAnswer.kind = "ok" /\ Get(LastAnswer.body, "valid", FALSE)
ServerSaidInvalid ==
    /\ last.op = "validate" /\ last.resp > 0
    /\ LastAnswer.kind = "ok" /\ ~Get(LastAnswer.body, "valid", FALSE)
TransportFailed ==
    /\ last.op = "validate" /\ last.resp > 0
    /\ LastAnswer.kind \in TransportFailures

\* C1: when validate() falls back to validate_offline() and accepts, the
\* cache record is at most OFFLINE_GRACE_DAYS old AND is unexpired (expiresAt
\* null or not before now); a cache validated more than 7 days ago is
\* rejected even if unexpired, and one within the grace period whose
\* expiresAt lies before now is rejected too.
C1_OfflineAcceptance ==
    /\ OfflineAccepted =>
          /\ Checkable(cache_file, hwid)
          /\ LET cache == CachedRecord(cache_file, hwid)
             IN /\ IsTimestamp(cache.validatedAt)
                /\ now - cache.validatedAt.t <= OFFLINE_GRACE_DAYS
                /\ \/ cache.expiresAt.kind = "null"
                   \/ IsTimestamp(cache.expiresAt) /\ now <= cache.expiresAt.t
    /\ (OfflineTried /\ Checkable(cache_file, hwid)) =>
          LET cache == CachedRecord(cache_file, hwid)
          IN /\ (IsTimestamp(cache.validatedAt)
                   /\ now - cache.validatedAt.t > OFFLINE_GRACE_DAYS) => ~last.ret
             /\ (IsTimestamp(cache.expiresAt)
                   /\ cache.expiresAt.t < now) => ~last.ret

\* C1 witness: an offline acceptance on the last day of the grace period,
\* which is also the day the license expires
C1_Witness ==
    /\ OfflineAccepted
    /\ Checkable(cache_file, hwid)
    /\ CachedRecord(cache_file, hwid).expiresAt.kind = "naive"
    /\ now - CachedRecord(cache_file, hwid).validatedAt.t = OFFLINE_GRACE_DAYS
    /\ now = CachedRecord(cache_file, hwid).expiresAt.t

\* C2: when the server answers valid=false, validate() returns false, the
\* held record becomes an invalid record carrying the server's error,
\* validate_offline() is not called and the cache file is not touched, even
\* when an acceptable cache is present.
C2_ServerRejection ==
    [][ServerSaidInvalid' =>
          /\ ~last'.ret
          /\ ~last'.raised
          /\ DOMAIN license_info' = {"valid", "error"}
          /\ ~license_info'.valid
          /\ "error" \in DOMAIN LastAnswer'.body
                => license_info'.error = LastAnswer'.body.error
          /\ last'.offl = 0
          /\ last'.saves = 0
          /\ cache_file' = cache_file
          /\ wrote' = wrote]_vars

\* validate_offline() would accept the cache as it is now
CacheAcceptable ==
    validate_offline(cache_file, hwid, HAS_CRYPTO, now, license_info,
                     offline_mode).ret

\* C2 witness: the server has rejected the license, with an error text of
\* its own, while the cache would have been accepted
C2_Witness ==
    /\ ServerSaidInvalid
    /\ "error" \in DOMAIN LastAnswer.body
    /\ CacheAcceptable

\* the cache file holds what save_cache writes after a valid=true answer
FreshlySavedShape(file, hw) ==
    /\ Readable(file, hw)
    /\ LET cache == CachedRecord(file, hw)
       IN /\ {"valid", "offlineMode", "validatedAt", "expiresAt"} \subseteq DOMAIN cache
          /\ cache.valid = TRUE
          /\ cache.offlineMode = FALSE
          /\ IsTimestamp(cache.validatedAt)

HeldAbsentOrInvalid == IsNone(license_info) \/ ~Get(license_info, "valid", FALSE)

\* C3 as stated: whenever the program has written the cache file, the file
\* holds the encryption of a record with valid = true, offlineMode = false,
\* a validatedAt timestamp and an expiresAt key.
C3_Original == wrote # "env" => FreshlySavedShape(cache_file, hwid)

\* C3 amended: the cache file changes only in a validate() that got
\* valid=true and ran save_cache; a completed write leaves the encryption of
\* a record with valid = true, offlineMode = false, a validatedAt timestamp
\* and an expiresAt key, a write that failed after open() leaves the file
\* empty; save_cache() with the held record absent or invalid leaves the
\* file alone.
C3_CacheContent ==
    /\ [](wrote = "saved" => FreshlySavedShape(cache_file, hwid))
    /\ [](wrote = "truncated" => cache_file = EmptyFile)
    /\ [](HeldAbsentOrInvalid =>
            \A n \in IVs, wr \in WriteOutcomes :
                LET saved == save_cache(license_info, HAS_CRYPTO, hwid, n, wr, cache_file)
                IN saved.file = cache_file /\ saved.wrote = "none" /\ ~saved.ret)
    /\ [][(cache_file' # cache_file \/ wrote' # wrote) =>
             ServerSaidValid' /\ last'.saves = 1]_vars

\* C3 witness: the program has written the cache and now holds an invalid
\* record, with which save_cache() is a no-op
C3_Witness ==
    /\ wrote = "saved"
    /\ ~IsNone(license_info)
    /\ ~license_info.valid
    /\ HAS_CRYPTO

\* C4: with a key set, the request failing and a cache saved by an earlier
\* valid=true answer at most 7 days ago whose expiresAt is null or in the
\* future, validate() returns true, the held record is the cached one with
\* offlineMode = true, is_valid() and is_offline_mode() are true.
C4_OfflineFallback ==
    (/\ TransportFailed
     /\ license_key \notin {NoKey, ""}
     /\ wrote = "saved"
     /\ FreshlySavedShape(cache_file, hwid)
     /\ LET cache == CachedRecord(cache_file, hwid)
        IN /\ now - cache.validatedAt.t \in 0..OFFLINE_GRACE_DAYS
           /\ \/ cache.expiresAt.kind = "null"
              \/ IsTimestamp(cache.expiresAt) /\ cache.expiresAt.t > now)
    => /\ last.ret
       /\ license_info = [CachedRecord(cache_file, hwid) EXCEPT !.offlineMode = TRUE]
       /\ is_valid(license_info)
       /\ is_offline_mode(license_info)

\* C5: when the server answers valid=true with features F, owner O and expiry
\* E, validate() returns true, the held record is valid with those fields,
\* validatedAt = now and offlineMode = false, has_feature(f) holds for every
\* f in F, is_offline_mode() is false and, with the cryptography module there
\* and the write succeeding, the cache file exists and is not empty.
C5_OnlineValid ==
    ServerSaidValid =>
        /\ last.ret
        /\ ~last.raised
        /\ DOMAIN license_info = {"valid", "expiresAt", "features", "owner",
                                  "validatedAt", "offlineMode"}
        /\ license_info.valid = TRUE
        /\ "expiresAt" \in DOMAIN LastAnswer.body
              => license_info.expiresAt = LastAnswer.body.expiresAt
        /\ "features" \in DOMAIN LastAnswer.body
              => license_info.features = LastAnswer.body.features
        /\ "owner" \in DOMAIN LastAnswer.body
              => license_info.owner = LastAnswer.body.owner
        /\ license_info.validatedAt = IsoNaive(now)
        /\ license_info.offlineMode = FALSE
        /\ \A i \in 1..Len(license_info.features) :
              has_feature(license_info, license_info.features[i])
        /\ is_valid(license_info)
        /\ ~is_offline_mode(license_info)
        /\ (HAS_CRYPTO /\ last.wr = "ok") =>
              /\ cache_file.exists
              /\ Len(cache_file.fields) = 2
              /\ Readable(cache_file, hwid)
              /\ CachedRecord(cache_file, hwid) = license_info

\* C5 witness: the server has said valid with a feature, an owner and an
\* expiry, and the cache was written
C5_Witness ==
    /\ ServerSaidValid
    /\ {"features", "owner", "expiresAt"} \subseteq DOMAIN LastAnswer.body
    /\ has_feature(license_info, "premium")
    /\ license_info.expiresAt.kind = "naive"
    /\ HAS_CRYPTO
    /\ last.wr = "ok"

\* C6: when the license key is absent or empty, validate() returns false at
\* once: no request is made, the cache file is neither read nor written and
\* the held record and the offline flag stay as they are.
C6_MissingKey ==
    [][(last'.op = "validate" /\ license_key \in {NoKey, ""}) =>
          /\ ~last'.ret
          /\ ~last'.raised
          /\ last'.resp = 0
          /\ last'.offl = 0
          /\ last'.saves = 0
          /\ license_info' = license_info
          /\ offline_mode' = offline_mode
          /\ cache_file' = cache_file
          /\ wrote' = wrote]_vars

\* C6 witness: validate() was called with an empty key while the cache
\* would have been accepted
C6_Witness ==
    /\ last.op = "validate"
    /\ license_key = ""
    /\ CacheAcceptable

\* C7: every transport failure (DNS, refused, timeout, non-2xx, malformed
\* JSON) makes validate() run validate_offline() once and return its result;
\* the held record is never replaced by an invalid one.
C7_TransportFailure ==
    [][TransportFailed' =>
          /\ last'.offl = 1
          /\ last'.saves = 0
          /\ ~last'.raised
          /\ LET offline == validate_offline(cache_file, hwid, HAS_CRYPTO, now,
                                             license_info, offline_mode)
             IN /\ last'.ret = offline.ret
                /\ last'.why = offline.why
                /\ license_info' = offline.info
                /\ offline_mode' = offline.off
          /\ ~last'.ret => license_info' = license_info
          /\ cache_file' = cache_file]_vars

\* C7 witness: a non-2xx answer carrying the server's rejection came in
\* while a valid record was held, and the fallback rejected
C7_Witness ==
    /\ TransportFailed
    /\ LastAnswer.kind = "non2xx"
    /\ ~last.ret
    /\ is_valid(license_info)

\* C8: no exception leaves validate(): whatever the request, the cache file
\* and the write do, it returns a boolean.
C8_NoException ==
    last.op = "validate" => (~last.raised /\ last.ret \in BOOLEAN)

\* C8 witness: the request failed and reading the cache raised inside
\* validate_offline
C8_Witness ==
    /\ TransportFailed
    /\ last.why = "Exception"
    /\ cache_file.exists

C10_Queries ==
    /\ [](HeldAbsentOrInvalid =>
            /\ \A f \in FeatureNames : ~has_feature(license_info, f)
            /\ last.op = "has_feature" => ~last.ret)
    /\ [][last'.op \in {"is_valid", "is_offline_mode", "has_feature"} =>
             /\ license_info' = license_info
             /\ offline_mode' = offline_mode
             /\ cache_file' = cache_file
             /\ wrote' = wrote
             /\ ~last'.raised
             /\ last'.op = "is_valid" => last'.ret = is_valid(license_info)
             /\ last'.op = "is_offline_mode" => last'.ret = is_offline_mode(license_info)
             /\ last'.op = "has_feature"
                   => last'.ret = has_feature(license_info, last'.arg)]_vars

\* C10 witness: has_feature("premium") was asked of an invalid record that
\* lists the feature, and answered false
C10_Witness ==
    /\ last.op = "has_feature"
    /\ last.arg = "premium"
    /\ ~last.ret
    /\ ~IsNone(license_info)
    /\ ~Get(license_info, "valid", FALSE)
    /\ \E i \in 1..Len(Get(license_info, "features", <<>>)) :
          license_info.features[i] = "premium"

\* C11: without the cryptography module save_cache() never creates or
\* changes the cache file and validate_offline() returns False whatever the
\* cache file holds, while a valid=true answer still makes validate() return
\* True.
C11_CryptoUnavailable ==
    ~HAS_CRYPTO =>
        /\ wrote = "env"
        /\ \A files \in {InitialFiles(hwid)} : \A i \in 1..Len(files) :
              LET offline == validate_offline(files[i], hwid, HAS_CRYPTO,
                                              now, license_info, offline_mode)
              IN /\ ~offline.ret /\ ~offline.raised
                 /\ offline.info = license_info /\ offline.off = offline_mode
        /\ \A n \in IVs, wr \in WriteOutcomes, i \in 1..Len(NetOutcomes) :
              LET saved == save_cache(valid_info(NetOutcomes[i].body, now),
                                      HAS_CRYPTO, hwid, n, wr, cache_file)
              IN ~saved.ret /\ saved.file = cache_file /\ saved.wrote = "none"
        /\ OfflineTried => ~last.ret
        /\ ServerSaidValid => (last.ret /\ is_valid(license_info))

\* C11 witness: without the module, a record got online is held and a later
\* fallback finds the cache of an earlier run, which it cannot decrypt
C11_Witness ==
    /\ ~HAS_CRYPTO
    /\ OfflineTried
    /\ last.why = "NoCrypto"
    /\ is_valid(license_info)
    /\ cache_file = CacheText(PriorRecord, hwid, 1)

\* C12: a cache written on a machine with fingerprint A is never accepted
\* by validate_offline() on a machine with fingerprint B # A: decrypting
\* under B's key fails and the offline validation is rejected.
C12_KeyBinding ==
    /\ wrote = "saved" =>
          LET elsewhere == validate_offline(cache_file, OtherHwid(hwid), TRUE, now,
                                            None, FALSE)
          IN /\ ~elsewhere.ret
             /\ elsewhere.why = "Exception"
             /\ elsewhere.info = None
    /\ \A n \in IVs \cup {2} :
          LET here == validate_offline(CacheText(PriorRecord, OtherHwid(hwid), n),
                                       hwid, TRUE, now, license_info, offline_mode)
          IN ~here.ret /\ here.why = "Exception" /\ here.info = license_info
    /\ (/\ OfflineTried
        /\ HAS_CRYPTO
        /\ \E n \in {1, 2} : cache_file = CacheText(PriorRecord, OtherHwid(hwid), n))
       => (~last.ret /\ last.why = "Exception")

\* C12 witness: the fallback ran on a cache that another machine wrote and
\* would itself accept
C12_Witness ==
    /\ OfflineTried
    /\ HAS_CRYPTO
    /\ cache_file = CacheText(PriorRecord, OtherHwid(hwid), 1)
    /\ validate_offline(cache_file, OtherHwid(hwid), TRUE, now, None, FALSE).ret
    /\ ~last.ret

\* C13: for every text, key and IV, _decrypt_aes(_encrypt_aes(text, key,
\* iv), key, iv) is the text again, also for the empty text and for texts
\* that fill whole blocks; _unpad_data(_pad_data(d)) = d, and _pad_data adds
\* between 1 and 16 bytes, making the length a positive multiple of 16.
C13_RoundTrip ==
    /\ probe.op = "_pad_data" =>
          LET d == utf8_encode(probe.payload)
          IN /\ Len(probe.out) - Len(d) \in 1..block_size
             /\ Len(probe.out) > 0
             /\ Len(probe.out) % block_size = 0
             /\ SubSeq(probe.out, 1, Len(d)) = d
    /\ probe.op = "_unpad_data" =>
          (~probe.out.exc /\ probe.out.val = utf8_encode(probe.payload))
    /\ probe.op = "_decrypt_aes" =>
          (~probe.out.exc /\ probe.out.val = probe.payload)

\* C13 witness: a text of two-byte characters that fills two blocks exactly
\* came back from _decrypt_aes
C13_Witness ==
    /\ probe.op = "_decrypt_aes"
    /\ Len(probe.payload) = block_size
    /\ Len(utf8_encode(probe.payload)) = 2 * block_size
    /\ probe.out.val = probe.payload

\* C14: when psutil/netifaces cannot be imported and the command that lists
\* the MAC addresses fails too, generate_hwid() still returns a fingerprint,
\* made of the fields that could be read, and raises nothing.
C14_HwidNeverRaises ==
    (probe.op = "generate_hwid" /\ ~probe.payload.HAS_NETINFO
                                /\ probe.payload.command # "ok")
    => /\ ~probe.out.exc
       /\ probe.out.val =
             sha256([fields |-> NonEmpty(<<probe.payload.hostname, probe.payload.system,
                                          "6.1", probe.payload.processor, "8">>),
                     macs |-> <<>>, mem |-> <<>>])

\* C15: a validate() that returns False (no key, a server rejection, or a
\* failed request with the offline fallback rejected) leaves the client
\* with is_valid() and has_feature(f) false.
C15_FailedValidateInvalidates ==
    (last.op = "validate" /\ ~last.ret)
    => /\ ~is_valid(license_info)
       /\ \A f \in FeatureNames : ~has_feature(license_info, f)

\* the cache file is one this program wrote: in this run, or in the earlier
\* run that validated online on day 0
ProgramWritten == wrote # "env" \/ cache_file = CacheText(PriorRecord, hwid, 1)

\* C16: when validate() returns True, is_valid() is true afterwards and
\* is_offline_mode() is true exactly when the offline fallback gave the
\* result; so for every cache file the program itself wrote.
C16_TrueMeansValid ==
    (last.op = "validate" /\ last.ret /\ (last.offl = 1 => ProgramWritten))
    => /\ is_valid(license_info)
       /\ is_offline_mode(license_info) <=> last.offl = 1
       /\ offline_mode <=> last.offl = 1
       /\ last.offl = 0 <=> ServerSaidValid

\* C16 witness: the fallback accepted a cache that this run wrote
C16_Witness ==
    /\ OfflineAccepted
    /\ wrote = "saved"
    /\ is_valid(license_info)
    /\ is_offline_mode(license_info)

\* the held record is the one a valid=false answer left
HoldsServerRejection == ~IsNone(license_info) /\ "error" \in DOMAIN license_info

\* C18: once the server has rejected the license, no later validate()
\* returns True through the offline fallback unless the server has said
\* valid in between.
C18_RejectionNotMasked ==
    [][(HoldsServerRejection /\ TransportFailed') => ~last'.ret]_vars

\* the cache files validate_offline cannot use
CorruptFiles(hw) ==
    SubSeq(InitialFiles(hw), 1, 7) \o
    << EmptyFile,
       FileOf(CacheText(PriorRecord, hw, 1).fields
              \o << CacheText(PriorRecord, hw, 1).fields[2] >>),
       FileOf(<<hex(urandom16(1)),
                hex(AES_CBC_encrypt(<<>>, _get_encryption_key(hw), urandom16(1)))>>),
       FileOf(<<hex(<<1, 1>>), CacheText(PriorRecord, hw, 1).fields[2]>>),
       FileOf(<<hex(urandom16(1)),
                hex(_encrypt_aes(<<97, 97, 97>>, _get_encryption_key(hw), urandom16(1)))>>),
       CacheText([valid |-> TRUE, validatedAt |-> IsoNaive(0)], hw, 1) >>

\* C19: for a cache file that is missing, has no colon, is no hex, fails to
\* decrypt or to unpad, is no JSON or lacks validatedAt or expiresAt,
\* validate_offline() returns False, raises nothing and leaves the held
\* record, the offline flag and the cache file as they are.
C19_CorruptCache ==
    /\ \A files \in {CorruptFiles(hwid)} : \A i \in 1..Len(files) :
          LET offline == validate_offline(files[i], hwid, HAS_CRYPTO,
                                          now, license_info, offline_mode)
          IN /\ ~offline.ret
             /\ ~offline.raised
             /\ offline.info = license_info
             /\ offline.off = offline_mode
    /\ (TransportFailed /\ ~Checkable(cache_file, hwid)) =>
          /\ ~last.ret
          /\ ~last.raised
          /\ last.why \in {"NoCache", "Exception", "NoCrypto", "MissingKeys"}

\* C19 witness: a valid record is held and the fallback ran on a cache
\* file whose ciphertext is cut short
C19_Witness ==
    /\ OfflineTried
    /\ HAS_CRYPTO
    /\ cache_file = InitialFiles(hwid)[6]
    /\ last.why = "Exception"
    /\ is_valid(license_info)
    /\ ~last.ret

\* C17: validate_offline() never writes the cache file, whether it accepts
\* or rejects, so offline validations do not refresh validatedAt: no
\* validate() returns True through the offline path more than 7 days after
\* the most recent successful online validation.
C17_GraceNotRefreshed ==
    /\ [][TransportFailed' =>
             (cache_file' = cache_file /\ wrote' = wrote
                 /\ last_online' = last_online)]_vars
    /\ []((OfflineAccepted /\ ProgramWritten) =>
             /\ last_online.at >= 0
             /\ CachedRecord(cache_file, hwid).validatedAt.t <= last_online.at
             /\ now - last_online.at <= OFFLINE_GRACE_DAYS)
    /\ []((/\ TransportFailed /\ ProgramWritten
           /\ now - last_online.at > OFFLINE_GRACE_DAYS) => ~last.ret)

\* C17 witness: the fallback accepted on the last day of grace a cache that
\* this run wrote
C17_Witness ==
    /\ OfflineAccepted
    /\ wrote = "saved"
    /\ last_online.at >= 0
    /\ now = last_online.at + OFFLINE_GRACE_DAYS
    /\ is_offline_mode(license_info)

\* the record the most recent validate() with a valid=true answer built
LastOnlineRecord == valid_info(NetOutcomes[last_online.resp].body, last_online.at)

\* C20: with the cryptography module there and the write succeeding, the
\* cache file holds one record, the one built by the most recent validate()
\* that got valid=true, whatever was cached before; an offline validation
\* afterwards takes over that record and no earlier one.
C20_SingleRecord ==
    (HAS_CRYPTO /\ last_online.at >= 0 /\ last_online.wr = "ok")
    => /\ Len(cache_file.fields) = 2
       /\ Readable(cache_file, hwid)
       /\ CachedRecord(cache_file, hwid) = LastOnlineRecord
       /\ OfflineAccepted =>
             license_info = [LastOnlineRecord EXCEPT !.offlineMode = TRUE]

\* C20 witness: the server said valid on day 1, with an expiry and two
\* features, and the fallback then took over the record of that day
C20_Witness ==
    /\ OfflineAccepted
    /\ HAS_CRYPTO
    /\ last_online.wr = "ok"
    /\ last_online.at = 1
    /\ last_online.resp = 7
    /\ license_info.validatedAt = IsoNaive(1)
    /\ license_info.features = <<"premium", "export">>

====
